---- MODULE Spec2Model ----
(***************************************************************************)
(* A model of the multi-server MCP client                                  *)
(* (src/mcp-multi-client/src/index.ts): main, loadConfig,                  *)
(* connectToServers, processQuery, chatLoop and cleanup, with the tool     *)
(* servers and the model backend as the environment.                       *)
(***************************************************************************)
EXTENDS Integers, Sequences, FiniteSets, TLC

\* ------------------------------------------------------------------ bounds

\* The longest content list (text and tool_use blocks) of a backend response.
MaxBlocks == 2

\* The number of queries the user types before typing only 'quit'.
MaxQueries == 2

\* The longest content list of a callTool result.
MaxSegments == 2

\* The number of tool calls the task scheduling server handles.
MaxRequests == 3

\* The number of times a cron callback of the task scheduling server runs.
MaxTicks == 2

\* ------------------------------------------------------- the environment

\* Server instance names a config file may hold.
Servers == {"echo", "clock", "simple", "simple2"}

\* What each server answers to listTools: tool names, unique within a server.
\* "simple" and "simple2" are two instances of the simple server (HELLO, ECHO,
\* TIME); "echo" and "clock" advertise one tool each.
Catalog(s) ==
  CASE s = "echo" -> <<"ECHO">>
    [] s = "clock" -> <<"TIME">>
    [] OTHER -> <<"HELLO", "ECHO", "TIME">>

ToolNames == {"HELLO", "ECHO", "TIME"}

\* The mcpServers records a valid config file may hold, in key order.
Configs ==
  { <<>>,
    <<"echo", "clock">>,
    <<"simple", "echo", "simple2">> }

\* The config file on disk: missing, unreadable, not JSON, JSON that fails
\* ConfigSchema, or a valid document.
FileKinds == {"missing", "unreadable", "notjson", "badschema", "valid"}

ConfigFiles ==
  {[kind |-> k, servers |-> <<>>] : k \in FileKinds \ {"valid"}}
    \cup {[kind |-> "valid", servers |-> c] : c \in Configs}

Range(q) == {q[i] : i \in 1..Len(q)}

\* Strings are sequences of pieces; these pieces are white space.
WhiteSpace == {" ", "\n"}

\* The text a backend text block may carry.
Texts == {<<"a">>, <<" ">>}

\* The tool names the backend may ask for: registered ones and one no server
\* advertises.
RequestNames == {"ECHO", "TIME", "NOPE"}

\* The properties a tool's input schema requires (zod shapes of the servers).
Required(toolName) == IF toolName = "ECHO" THEN {"message"} ELSE {}

\* toolCall.input as the set of the argument names it holds: the first block of
\* a response comes without arguments, a later one with a message, so that a
\* tool is requested both with and without the argument ECHO requires.
InputAt(i) == IF i = 1 THEN {} ELSE {"message"}

\* The blocks a backend response may hold at position i; a tool_use block's id
\* is unique within the response.
BlocksAt(i) ==
  {[type |-> "text", text |-> t, id |-> 0, name |-> ""] : t \in Texts}
    \cup {[type |-> "tool_use", text |-> <<>>, id |-> i, name |-> n,
            input |-> InputAt(i)] : n \in RequestNames}

ResponseContents ==
  UNION {{c \in [1..n -> UNION {BlocksAt(i) : i \in 1..n}] :
            \A i \in 1..n : c[i] \in BlocksAt(i)} : n \in 0..MaxBlocks}

\* The contents the backend may answer the second request with: nothing, texts,
\* and a text with a further tool_use block.
FinalContents ==
  { <<>>,
    <<[type |-> "text", text |-> <<"b">>, id |-> 0, name |-> ""]>>,
    <<[type |-> "text", text |-> <<"b">>, id |-> 0, name |-> ""],
      [type |-> "text", text |-> <<" ">>, id |-> 0, name |-> ""]>>,
    <<[type |-> "text", text |-> <<"b">>, id |-> 0, name |-> ""],
      [type |-> "tool_use", text |-> <<>>, id |-> 2, name |-> "ECHO",
       input |-> InputAt(2)]>> }

\* What a tool server may answer to callTool: a text segment, a text segment
\* with isError set (as this repository's servers report errors), or no
\* content with the error field set.
ToolResponses ==
  { [content |-> <<[type |-> "text", text |-> <<"out">>]>>,
     error |-> FALSE, isError |-> FALSE],
    [content |-> <<[type |-> "text", text |-> <<"Error: failed">>]>>,
     error |-> FALSE, isError |-> TRUE],
    [content |-> <<>>, error |-> TRUE, isError |-> FALSE] }

\* The segments a callTool result may hold: text segments, a segment of type
\* text with no text property, and a segment of another type.
Segments ==
  { [type |-> "text", text |-> <<"out">>],
    [type |-> "text", text |-> <<"two">>],
    [type |-> "text"],
    [type |-> "image"] }

\* The results client.callTool may resolve with: a content list of up to
\* MaxSegments segments or no content property, with or without the error
\* property the client reads and the isError property the servers set.
CallToolResults ==
  {[content |-> c, error |-> e, isError |-> ie] :
     c \in UNION {[1..n -> Segments] : n \in 0..MaxSegments},
     e \in BOOLEAN, ie \in BOOLEAN}
    \cup {[error |-> e, isError |-> ie] : e \in BOOLEAN, ie \in BOOLEAN}

\* Task scheduling server: the task names a tool call may carry.
TaskNames == {"backup", "report"}

\* Task scheduling server: the cron patterns a tool call may carry, one that
\* cron.validate accepts and one it rejects.
Schedules == {"* * * * *", "soon"}

\* cron.validate(schedule)
CronValidate(schedule) == schedule = "* * * * *"

\* The exit codes a child process may close with.
ExitCodes == {0, 1}

\* What a tool handler of the task scheduling server returns, with the call it
\* answers: the text of the one content segment, isError, and for LIST_TASKS
\* the names listed.
Result(tool, name, schedule, text, isError, listed) ==
  [tool |-> tool, name |-> name, schedule |-> schedule, text |-> text,
   isError |-> isError, listed |-> listed]

\* No tool call has been handled yet.
NoResult == Result("none", "", "", <<>>, FALSE, {})

\* The text of the n-th query the user types.
QueryText(n) == <<"query", ToString(n)>>

\* The lines the user may type at the n-th query prompt.
Lines(n) == {<<"quit">>, <<"QUIT">>, <<>>, <<" ">>, QueryText(n)}


\* --------------------------------------------------------------- the state

VARIABLES
  pc,               \* where main is
  exitCode,         \* the code given to process.exit (read when pc = "exited")
  configFile,       \* the file at configFile's path
  apiKey,           \* whether ANTHROPIC_API_KEY is set
  serverConfigs,    \* this.serverConfigs: {} for null, else {the server names}
  mcpClients,       \* this.mcpClients: the keys of the map
  transports,       \* this.transports: the keys of the map
  attempt,          \* per server, where its connection promise is
  connected,        \* servers whose client.connect resolved
  toolToServerMap,  \* this.toolToServerMap: a set of <<toolName, serverName>>
  allTools,         \* this.allTools
  warnings,         \* the duplicate-tool warnings written, in order
  reportedCount,    \* the count of the "Connected to N server(s)" line
  queries,          \* the number of queries answered so far
  messages,         \* processQuery: messages
  toolCalls,        \* processQuery: toolCalls
  toolResults,      \* processQuery: toolResults
  idx,              \* processQuery: the position of the for loop in toolCalls
  finalAnswer,      \* processQuery: finalAnswer
  answer,           \* what processQuery returned, until chatLoop has printed it
  backendCalls,     \* the requests of this query to anthropic.messages.create
  remoteCalls,      \* the callTool requests of this query, in order
  inflight,         \* the callTool request awaited, if any
  rejections,       \* the callTool requests of this query that rejected
  returns,          \* the callTool requests of this query that resolved
  initialResponse,  \* processQuery: initialResponse.content, once received
  finalResponse,    \* processQuery: finalResponse.content, once received
  lineRead,         \* chatLoop: message, the line rl.question resolved with
  closing,          \* cleanup: the clients whose close() is pending
  closeAttempted,   \* cleanup: the clients close() was called on
  closeFailed,      \* cleanup: the clients whose close() rejected
  run2,             \* a second run of connectToServers on the same config
  scheduledTasks,   \* task server: the scheduledTasks map, a set of stored tasks
  cronTasks,        \* task server: the node-cron tasks that are not stopped
  children,         \* task server: the child processes that have not closed
  ticks,            \* task server: the number of cron callbacks run so far
  requests,         \* task server: the number of tool calls handled so far
  lastResult,       \* task server: the last tool call and what it returned
  cancelled         \* task server: names cancelled and not scheduled since

envVars == <<configFile, apiKey>>

connVars ==
  <<serverConfigs, mcpClients, transports, attempt, connected, toolToServerMap,
    allTools, warnings, reportedCount>>

queryVars ==
  <<queries, messages, toolCalls, toolResults, idx, finalAnswer, answer,
    backendCalls, remoteCalls, inflight, rejections, returns, initialResponse,
    finalResponse>>

cleanupVars == <<closing, closeAttempted, closeFailed>>

\* The state of the client process.
clientVars ==
  <<pc, exitCode, envVars, connVars, queryVars, cleanupVars, run2, lineRead>>

\* The state of the task scheduling server process.
taskVars ==
  <<scheduledTasks, cronTasks, children, ticks, requests, lastResult, cancelled>>

vars == <<clientVars, taskVars>>

\* ------------------------------------------------------------- Map helpers

MapHas(m, k) == \E p \in m : p[1] = k

MapGet(m, k) == IF MapHas(m, k) THEN (CHOOSE p \in m : p[1] = k)[2] ELSE "undefined"

MapSetKeepOld(m, k, v) == m \cup {<<k, v>>}

\* A set that records nothing.
MapSetNothing(m, k, v) == m

MapSet(m, k, v) == {p \in m : p[1] # k} \cup {<<k, v>>}

\* ------------------------------------------------- connectToServers, parts

\* A server contributes no tool to allTools.
ServerToolsNone(serverName, tools) == <<>>

\* The tools one server contributes to allTools; "server" stands for the
\* description and input schema, which are that server's.
ServerTools(serverName, tools) ==
  [i \in 1..Len(tools) |-> [name |-> tools[i], server |-> serverName]]

\* The registry writes with the owner recorded before the duplicate check.
RECURSIVE RegisterSetFirst(_, _, _, _)
RegisterSetFirst(reg, serverName, tools, i) ==
  IF i > Len(tools) THEN reg
  ELSE
    LET name == tools[i]
        map == MapSet(reg.map, name, serverName)
        warned ==
          IF MapHas(map, name)
            THEN Append(reg.warnings,
                        [name |-> name, old |-> MapGet(map, name),
                         new |-> serverName])
            ELSE reg.warnings
    IN RegisterSetFirst([map |-> map, warnings |-> warned], serverName, tools,
                        i + 1)

\* The registry writes of the toolsResult.tools.map callback, tools[i..]: warn
\* when the name has an owner, then record serverName as the owner.
RECURSIVE Register(_, _, _, _)
Register(reg, serverName, tools, i) ==
  IF i > Len(tools) THEN reg
  ELSE
    LET name == tools[i]
        warned ==
          IF MapHas(reg.map, name)
            THEN Append(reg.warnings,
                        [name |-> name, old |-> MapGet(reg.map, name),
                         new |-> serverName])
            ELSE reg.warnings
    IN Register([map |-> MapSet(reg.map, name, serverName), warnings |-> warned],
                serverName, tools, i + 1)

\* A promise that rejects as soon as one attempt fails.
SettledOrOneFailed(att, cfg) ==
  \/ \A s \in Range(cfg) : att[s] \in {"done", "failed"}
  \/ \E s \in Range(cfg) : att[s] = "failed"

\* await Promise.all(connectionPromises): every attempt's promise has resolved
\* (none rejects: each attempt catches its own failure).
Settled(att, cfg) == \A s \in Range(cfg) : att[s] \in {"done", "failed"}

NoAttempts == [s \in Servers |-> "none"]

\* The value of this.serverConfigs.mcpServers once loadConfig has set it.
McpServers == CHOOSE c \in serverConfigs : TRUE

\* ------------------------------------------------------------------- Init

\* The task scheduling server after its module has loaded: an empty map, no
\* cron task, no child process, no tool call handled.
TasksIdle ==
  /\ scheduledTasks = {}
  /\ cronTasks = {}
  /\ children = {}
  /\ ticks = 0
  /\ requests = 0
  /\ lastResult = NoResult
  /\ cancelled = {}

Init ==
  /\ pc = "start"
  /\ exitCode = 0
  /\ configFile \in ConfigFiles
  /\ apiKey \in BOOLEAN
  /\ serverConfigs = {}
  /\ mcpClients = {}
  /\ transports = {}
  /\ attempt = NoAttempts
  /\ connected = {}
  /\ toolToServerMap = {}
  /\ allTools = <<>>
  /\ warnings = <<>>
  /\ reportedCount = 0
  /\ queries = 0
  /\ messages = <<>>
  /\ toolCalls = <<>>
  /\ toolResults = <<>>
  /\ idx = 0
  /\ finalAnswer = <<>>
  /\ answer = <<>>
  /\ backendCalls = <<>>
  /\ remoteCalls = <<>>
  /\ inflight = {}
  /\ rejections = {}
  /\ returns = {}
  /\ initialResponse = {}
  /\ finalResponse = {}
  /\ lineRead = <<>>
  /\ closing = {}
  /\ closeAttempted = {}
  /\ closeFailed = {}
  /\ run2 = [started |-> FALSE, attempt |-> NoAttempts, mcpClients |-> {},
             toolToServerMap |-> {}]
  /\ TasksIdle

\* ------------------------------------------------------------------- main

\* main up to the try block: the config file must exist, and the constructor
\* throws without an API key (outside the try: an unhandled rejection).
MainStart ==
  /\ pc = "start"
  /\ IF configFile.kind = "missing" \/ ~apiKey
       THEN pc' = "exited" /\ exitCode' = 1
       ELSE pc' = "loadConfig" /\ exitCode' = exitCode
  /\ UNCHANGED <<envVars, connVars, queryVars, cleanupVars, run2, lineRead, taskVars>>

\* loadConfig: readFileSync, JSON.parse and ConfigSchema.parse each throw on a
\* bad file; the error is logged and thrown again, to main's catch block, and
\* main's finally block runs cleanup.
LoadConfig ==
  /\ pc = "loadConfig"
  /\ IF configFile.kind = "valid"
       THEN serverConfigs' = {configFile.servers} /\ pc' = "connect"
       ELSE serverConfigs' = serverConfigs /\ pc' = "cleanup"
  /\ UNCHANGED <<exitCode, envVars, mcpClients, transports, attempt, connected,
                 toolToServerMap, allTools, warnings, reportedCount, queryVars,
                 cleanupVars, run2, lineRead, taskVars>>

\* connectToServers, the for loop: it runs without an await, so every transport
\* and client is in its map, and every attempt has called client.connect, before
\* any attempt goes on.
ConnectToServers ==
  /\ pc = "connect"
  /\ transports' = Range(McpServers)
  /\ mcpClients' = Range(McpServers)
  /\ attempt' = [s \in Servers |->
                   IF s \in Range(McpServers) THEN "connecting" ELSE "none"]
  /\ pc' = "awaitAll"
  /\ UNCHANGED <<exitCode, envVars, serverConfigs, connected, toolToServerMap,
                 allTools, warnings, reportedCount, queryVars, cleanupVars, run2, lineRead, taskVars>>

\* await client.connect(transport) resolves.
ConnectOk(s) ==
  /\ pc = "awaitAll"
  /\ attempt[s] = "connecting"
  /\ attempt' = [attempt EXCEPT ![s] = "listing"]
  /\ connected' = connected \cup {s}
  /\ UNCHANGED <<pc, exitCode, envVars, serverConfigs, mcpClients, transports,
                 toolToServerMap, allTools, warnings, reportedCount, queryVars,
                 cleanupVars, run2, lineRead, taskVars>>

\* The catch block of an attempt keeps the failed server in the maps.
CatchKeeps(m, s) == m

\* The catch block of an attempt: this.mcpClients.delete, this.transports.delete.
CatchDeletes(m, s) == m \ {s}

\* client.connect or client.listTools rejects: the attempt's catch block.
AttemptFail(s) ==
  /\ pc = "awaitAll"
  /\ attempt[s] \in {"connecting", "listing"}
  /\ attempt' = [attempt EXCEPT ![s] = "failed"]
  /\ mcpClients' = CatchDeletes(mcpClients, s)
  /\ transports' = CatchDeletes(transports, s)
  /\ UNCHANGED <<pc, exitCode, envVars, serverConfigs, connected,
                 toolToServerMap, allTools, warnings, reportedCount, queryVars,
                 cleanupVars, run2, lineRead, taskVars>>

\* await client.listTools() resolves: the tools are registered and pushed to
\* allTools in one synchronous stretch.
ListToolsOk(s) ==
  /\ pc = "awaitAll"
  /\ attempt[s] = "listing"
  /\ LET reg == Register([map |-> toolToServerMap, warnings |-> warnings],
                         s, Catalog(s), 1)
     IN /\ toolToServerMap' = reg.map
        /\ warnings' = reg.warnings
  /\ allTools' = allTools \o ServerTools(s, Catalog(s))
  /\ attempt' = [attempt EXCEPT ![s] = "done"]
  /\ UNCHANGED <<pc, exitCode, envVars, serverConfigs, mcpClients, transports,
                 connected, reportedCount, queryVars, cleanupVars, run2, lineRead, taskVars>>

\* No server is configured.
NoServerConfigured == McpServers = <<>>

\* this.mcpClients.size === 0
NoServerConnected == mcpClients = {}

\* After Promise.all: exit with code 1 when no client is left, else report the
\* number of clients and return to main, which enters chatLoop and asks for the
\* first line.
AllSettled ==
  /\ pc = "awaitAll"
  /\ Settled(attempt, McpServers)
  /\ IF NoServerConnected
       THEN pc' = "exited" /\ exitCode' = 1 /\ reportedCount' = reportedCount
       ELSE /\ pc' = "prompt"
            /\ exitCode' = exitCode
            /\ reportedCount' = Cardinality(mcpClients)
  /\ UNCHANGED <<envVars, serverConfigs, mcpClients, transports, attempt,
                 connected, toolToServerMap, allTools, warnings, queryVars,
                 cleanupVars, run2, lineRead, taskVars>>

\* ------------------------------------------------------ processQuery, parts

\* texts.join(sep)
RECURSIVE Join(_, _)
Join(texts, sep) ==
  IF Len(texts) = 0 THEN <<>>
  ELSE IF Len(texts) = 1 THEN texts[1]
  ELSE texts[1] \o <<sep>> \o Join(Tail(texts), sep)

\* str.trim()
RECURSIVE TrimStart(_)
TrimStart(str) ==
  IF Len(str) > 0 /\ Head(str) \in WhiteSpace THEN TrimStart(Tail(str)) ELSE str

RECURSIVE TrimEnd(_)
TrimEnd(str) ==
  IF Len(str) > 0 /\ str[Len(str)] \in WhiteSpace
    THEN TrimEnd(SubSeq(str, 1, Len(str) - 1))
    ELSE str

Trim(str) == TrimEnd(TrimStart(str))

\* message.toLowerCase()
ToLowerCase(str) == IF str = <<"QUIT">> THEN <<"quit">> ELSE str

IsText(block) == block.type = "text"

IsToolUse(block) == block.type = "tool_use"

\* Every block of a response taken as text: a tool_use block gives its name.
TextContentsWithNames(content) ==
  [i \in 1..Len(content) |->
     IF content[i].type = "text" THEN content[i].text ELSE <<content[i].name>>]

\* The text blocks' texts of a response, in order.
TextContents(content) ==
  LET texts == SelectSeq(content, IsText)
  IN [i \in 1..Len(texts) |-> texts[i].text]

\* Only the first block of type "tool_use".
ToolUsesFirstOnly(content) ==
  LET calls == SelectSeq(content, LAMBDA b : b.type = "tool_use")
  IN IF Len(calls) > 1 THEN <<calls[1]>> ELSE calls

\* The tool_use blocks of a response, in order.
ToolUses(content) == SelectSeq(content, IsToolUse)

\* The lookup falls back to some connected client when the name has no owner.
ClientOfFallback(toolName) ==
  LET serverName == MapGet(toolToServerMap, toolName)
  IN IF serverName # "undefined" /\ serverName \in mcpClients
       THEN serverName
       ELSE CHOOSE s \in mcpClients : TRUE

\* The lookup returns a connected client other than the owner when there is one.
ClientOfAnyOwner(toolName) ==
  LET serverName == MapGet(toolToServerMap, toolName)
      others == mcpClients \ {serverName}
  IN IF serverName # "undefined" /\ serverName \in mcpClients
       THEN IF others # {} THEN CHOOSE s \in others : TRUE ELSE serverName
       ELSE "undefined"

\* const serverName = this.toolToServerMap.get(toolName);
\* const client = serverName ? this.mcpClients.get(serverName) : undefined;
ClientOf(toolName) ==
  LET serverName == MapGet(toolToServerMap, toolName)
  IN IF serverName # "undefined" /\ serverName \in mcpClients
       THEN serverName
       ELSE "undefined"

\* The result pushed for a tool call with no client.
Unavailable(toolCall) ==
  [type |-> "tool_result", tool_use_id |-> toolCall.id,
   content |-> <<"Error: Tool ", toolCall.name,
                 " is not available or its server is disconnected.">>,
   is_error |-> TRUE]

\* The result of a rejected callTool, not flagged as an error.
CallFailedNoFlag(toolCall, message) ==
  [type |-> "tool_result", tool_use_id |-> toolCall.id,
   content |-> <<"Error executing tool ", toolCall.name, ": ", message>>,
   is_error |-> FALSE]

\* The result pushed when callTool rejects with error.message = message.
CallFailed(toolCall, message) ==
  [type |-> "tool_result", tool_use_id |-> toolCall.id,
   content |-> <<"Error executing tool ", toolCall.name, ": ", message>>,
   is_error |-> TRUE]

\* The first segment of type "text", or none.
FirstText(content) ==
  LET texts == SelectSeq(content, IsText)
  IN IF Len(texts) > 0 THEN {texts[1]} ELSE {}

\* JSON.stringify(result.content): the segments in order, each with its type
\* and, when it has one, its text.
RECURSIVE Stringify(_)
Stringify(content) ==
  IF Len(content) = 0 THEN <<>>
  ELSE LET c == Head(content)
       IN <<"{", c.type>>
            \o (IF "text" \in DOMAIN c THEN c.text ELSE <<>>)
            \o <<"}">> \o Stringify(Tail(content))

\* The result pushed when callTool resolves with result.
Normalized(toolCall, result) ==
  LET resultOutput ==
        IF "content" \in DOMAIN result /\ Len(result.content) > 0
          THEN LET textBlock == FirstText(result.content)
               IN IF textBlock # {} /\ \A b \in textBlock : "text" \in DOMAIN b
                    THEN (CHOOSE b \in textBlock : TRUE).text
                    ELSE <<"[">> \o Stringify(result.content) \o <<"]">>
          ELSE IF result.error
                 THEN <<"Tool ", toolCall.name, " reported an error.">>
                 ELSE <<"Tool ", toolCall.name, " executed.">>
  IN [type |-> "tool_result", tool_use_id |-> toolCall.id,
      content |-> resultOutput, is_error |-> (result.error = TRUE)]

\* The messages a callTool rejection may carry.
TransportErrors == {"Connection closed"}

\* The messages a rejection of anthropic.messages.create may carry.
BackendErrors == {"Overloaded"}

Placeholder == <<"Claude did not provide a text response.">>

\* messages that start with the turn of the query before this one.
InitialMessagesWithHistory(query) ==
  IF queries > 0
    THEN <<[role |-> "user", content |-> QueryText(queries)],
           [role |-> "user", content |-> query]>>
    ELSE <<[role |-> "user", content |-> query]>>

\* messages as processQuery creates it: the user turn with the query.
InitialMessages(query) == <<[role |-> "user", content |-> query]>>

\* A toolCalls.length test that never takes the early return.
NoToolCallsNever(calls) == FALSE

\* toolCalls.length === 0
NoToolCalls(calls) == Len(calls) = 0

\* The per-query state once chatLoop has printed the answer.
QueryIdle ==
  /\ messages' = <<>>
  /\ toolCalls' = <<>>
  /\ toolResults' = <<>>
  /\ idx' = 0
  /\ finalAnswer' = <<>>
  /\ answer' = <<>>
  /\ backendCalls' = <<>>
  /\ remoteCalls' = <<>>
  /\ inflight' = {}
  /\ rejections' = {}
  /\ returns' = {}
  /\ initialResponse' = {}
  /\ finalResponse' = {}

\* ----------------------------------------------------------------- chatLoop

\* rl.question resolves with 'quit' in any case: break, rl.close(), and main's
\* finally block runs cleanup.
ReadQuit(line) ==
  /\ pc = "prompt"
  /\ ToLowerCase(line) = <<"quit">>
  /\ lineRead' = line
  /\ pc' = "cleanup"
  /\ UNCHANGED <<exitCode, envVars, connVars, queryVars, cleanupVars, run2, taskVars>>

\* A blank line that is passed to processQuery.
ReadBlankAsQuery(line) ==
  /\ pc = "prompt"
  /\ queries < MaxQueries
  /\ ToLowerCase(line) # <<"quit">>
  /\ Trim(line) = <<>>
  /\ lineRead' = line
  /\ messages' = <<[role |-> "user", content |-> line]>>
  /\ finalAnswer' = <<>>
  /\ backendCalls' =
       Append(backendCalls, [messages |-> messages', tools |-> allTools])
  /\ pc' = "phase1"
  /\ UNCHANGED <<exitCode, envVars, connVars, queries, toolCalls, toolResults,
                 idx, answer, remoteCalls, inflight, rejections, returns,
                 initialResponse, finalResponse, cleanupVars, run2, taskVars>>

\* rl.question resolves with a blank line: continue.
ReadBlank(line) ==
  /\ pc = "prompt"
  /\ ToLowerCase(line) # <<"quit">>
  /\ Trim(line) = <<>>
  /\ lineRead' = line
  /\ UNCHANGED <<pc, exitCode, envVars, connVars, queryVars, cleanupVars, run2, taskVars>>

\* rl.question resolves with a query: processQuery runs up to its first await,
\* the phase-1 anthropic.messages.create with the tools of allTools.
ReadQuery(line) ==
  /\ pc = "prompt"
  /\ queries < MaxQueries
  /\ ToLowerCase(line) # <<"quit">>
  /\ Trim(line) # <<>>
  /\ lineRead' = line
  /\ messages' = InitialMessages(line)
  /\ finalAnswer' = <<>>
  /\ backendCalls' =
       Append(backendCalls, [messages |-> messages', tools |-> allTools])
  /\ pc' = "phase1"
  /\ UNCHANGED <<exitCode, envVars, connVars, queries, toolCalls, toolResults,
                 idx, answer, remoteCalls, inflight, rejections, returns,
                 initialResponse, finalResponse, cleanupVars, run2, taskVars>>

\* The phase-1 response arrives: collect texts and tool calls; return when no
\* tool is called, else push the assistant turn and enter the for loop.
Phase1Response(content) ==
  /\ pc = "phase1"
  /\ LET texts == TextContents(content)
         calls == ToolUses(content)
         withText == IF Len(texts) > 0 THEN Join(texts, "\n") \o <<"\n">>
                     ELSE finalAnswer
     IN /\ initialResponse' = {content}
        /\ finalAnswer' = withText
        /\ IF NoToolCalls(calls)
             THEN /\ answer' = IF Trim(withText) # <<>> THEN Trim(withText)
                               ELSE Placeholder
                  /\ pc' = "print"
                  /\ UNCHANGED <<messages, toolCalls, toolResults, idx>>
             ELSE /\ messages' =
                       Append(messages, [role |-> "assistant", content |-> content])
                  /\ toolCalls' = calls
                  /\ toolResults' = <<>>
                  /\ idx' = 1
                  /\ pc' = "dispatch"
                  /\ answer' = answer
  /\ UNCHANGED <<exitCode, envVars, connVars, queries, backendCalls,
                 remoteCalls, inflight, rejections, returns, finalResponse,
                 cleanupVars, run2, lineRead, taskVars>>

\* A rejection of anthropic.messages.create that leaves processQuery and ends
\* chatLoop.
BackendFailThrows(message) ==
  /\ pc \in {"phase1", "phase4"}
  /\ pc' = "cleanup"
  /\ UNCHANGED <<exitCode, envVars, connVars, queryVars, cleanupVars, run2,
                 lineRead, taskVars>>

\* anthropic.messages.create rejects, in phase 1 or in phase 4: the catch block
\* of processQuery returns the error as the answer.
BackendFail(message) ==
  /\ pc \in {"phase1", "phase4"}
  /\ answer' = <<"An error occurred: ", message>>
  /\ pc' = "print"
  /\ UNCHANGED <<exitCode, envVars, connVars, queries, messages, toolCalls,
                 toolResults, idx, finalAnswer, backendCalls, remoteCalls,
                 inflight, rejections, returns, initialResponse, finalResponse,
                 cleanupVars, run2, lineRead, taskVars>>

\* A turn of the for loop that does not await client.callTool: the call is made
\* and the loop goes on to the next tool call.
DispatchNoAwait ==
  /\ pc = "dispatch"
  /\ idx <= Len(toolCalls)
  /\ LET toolCall == toolCalls[idx]
         serverName == MapGet(toolToServerMap, toolCall.name)
     IN IF serverName = "undefined" \/ serverName \notin mcpClients
          THEN /\ toolResults' = Append(toolResults, Unavailable(toolCall))
               /\ UNCHANGED <<remoteCalls, inflight>>
          ELSE /\ inflight' = inflight \cup {[server |-> serverName,
                                             name |-> toolCall.name,
                                             id |-> toolCall.id,
                                             arguments |-> toolCall.input]}
               /\ remoteCalls' =
                    Append(remoteCalls, [server |-> serverName,
                                         name |-> toolCall.name,
                                         id |-> toolCall.id,
                                         arguments |-> toolCall.input])
               /\ toolResults' =
                    Append(toolResults, CallFailed(toolCall, "not awaited"))
  /\ idx' = idx + 1
  /\ UNCHANGED <<pc, exitCode, envVars, connVars, queries, messages, toolCalls,
                 finalAnswer, answer, backendCalls, rejections, returns,
                 initialResponse, finalResponse, cleanupVars, run2, lineRead, taskVars>>

\* One turn of the for loop up to its await: a tool call with no client gets an
\* error result and the loop goes on; otherwise client.callTool is called.
Dispatch ==
  /\ pc = "dispatch"
  /\ idx <= Len(toolCalls)
  /\ LET toolCall == toolCalls[idx]
         client == ClientOf(toolCall.name)
     IN IF client = "undefined"
          THEN /\ toolResults' = Append(toolResults, Unavailable(toolCall))
               /\ idx' = idx + 1
               /\ UNCHANGED <<pc, remoteCalls, inflight>>
          ELSE /\ inflight' = {[server |-> client, name |-> toolCall.name,
                                id |-> toolCall.id,
                                arguments |-> toolCall.input]}
               /\ remoteCalls' =
                    Append(remoteCalls, [server |-> client, name |-> toolCall.name,
                                         id |-> toolCall.id,
                                         arguments |-> toolCall.input])
               /\ pc' = "calling"
               /\ UNCHANGED <<toolResults, idx>>
  /\ UNCHANGED <<exitCode, envVars, connVars, queries, messages, toolCalls,
                 finalAnswer, answer, backendCalls, rejections, returns,
                 initialResponse, finalResponse, cleanupVars, run2, lineRead, taskVars>>

\* client.callTool resolves: the result is normalized and pushed.
CallToolReturn(result) ==
  /\ pc = "calling"
  /\ toolResults' = Append(toolResults, Normalized(toolCalls[idx], result))
  /\ returns' = returns \cup {[id |-> toolCalls[idx].id, result |-> result]}
  /\ idx' = idx + 1
  /\ inflight' = {}
  /\ pc' = "dispatch"
  /\ UNCHANGED <<exitCode, envVars, connVars, queries, messages, toolCalls,
                 finalAnswer, answer, backendCalls, remoteCalls, rejections,
                 initialResponse, finalResponse, cleanupVars, run2, lineRead, taskVars>>

\* A rejected callTool that also drops the server's client and transport.
CallToolRejectDrops(message) ==
  /\ pc = "calling"
  /\ toolResults' = Append(toolResults, CallFailed(toolCalls[idx], message))
  /\ rejections' = rejections \cup {[id |-> toolCalls[idx].id, message |-> message]}
  /\ mcpClients' = mcpClients \ {s \in Servers : \E c \in inflight : c.server = s}
  /\ transports' = transports \ {s \in Servers : \E c \in inflight : c.server = s}
  /\ idx' = idx + 1
  /\ inflight' = {}
  /\ pc' = "dispatch"
  /\ UNCHANGED <<exitCode, envVars, serverConfigs, attempt, connected,
                 toolToServerMap, allTools, warnings, reportedCount, queries,
                 messages, toolCalls, finalAnswer, answer, backendCalls,
                 remoteCalls, returns, initialResponse, finalResponse,
                 cleanupVars, run2, lineRead, taskVars>>

\* client.callTool rejects: the inner catch block pushes an error result and
\* the loop goes on.
CallToolReject(message) ==
  /\ pc = "calling"
  /\ toolResults' = Append(toolResults, CallFailed(toolCalls[idx], message))
  /\ rejections' = rejections \cup {[id |-> toolCalls[idx].id, message |-> message]}
  /\ idx' = idx + 1
  /\ inflight' = {}
  /\ pc' = "dispatch"
  /\ UNCHANGED <<exitCode, envVars, connVars, queries, messages, toolCalls,
                 finalAnswer, answer, backendCalls, remoteCalls, returns,
                 initialResponse, finalResponse, cleanupVars, run2, lineRead, taskVars>>

\* After the for loop: push the tool results as a user turn and call
\* anthropic.messages.create again, without tools.
SendResults ==
  /\ pc = "dispatch"
  /\ idx > Len(toolCalls)
  /\ messages' = Append(messages, [role |-> "user", content |-> toolResults])
  /\ backendCalls' = Append(backendCalls, [messages |-> messages', tools |-> <<>>])
  /\ pc' = "phase4"
  /\ UNCHANGED <<exitCode, envVars, connVars, queries, toolCalls, toolResults,
                 idx, finalAnswer, answer, remoteCalls, inflight, rejections,
                 returns, initialResponse, finalResponse, cleanupVars, run2,
                 lineRead, taskVars>>

\* A second response whose tool_use blocks start another round of the loop.
Phase4ResponseLoops(content) ==
  /\ pc = "phase4"
  /\ finalAnswer' = finalAnswer \o Join(TextContents(content), "\n")
  /\ finalResponse' = {content}
  /\ IF \E i \in 1..Len(content) : content[i].type = "tool_use"
       THEN /\ messages' =
                 Append(messages, [role |-> "assistant", content |-> content])
            /\ toolCalls' = SelectSeq(content, LAMBDA b : b.type = "tool_use")
            /\ toolResults' = <<>>
            /\ idx' = 1
            /\ pc' = "dispatch"
            /\ answer' = answer
       ELSE /\ answer' = Trim(finalAnswer')
            /\ pc' = "print"
            /\ UNCHANGED <<messages, toolCalls, toolResults, idx>>
  /\ UNCHANGED <<exitCode, envVars, connVars, queries, backendCalls,
                 remoteCalls, inflight, rejections, returns, initialResponse,
                 cleanupVars, run2, lineRead, taskVars>>

\* The phase-4 response arrives: its texts are appended and the answer returned.
Phase4Response(content) ==
  /\ pc = "phase4"
  /\ finalAnswer' = finalAnswer \o Join(TextContents(content), "\n")
  /\ answer' = Trim(finalAnswer')
  /\ finalResponse' = {content}
  /\ pc' = "print"
  /\ UNCHANGED <<exitCode, envVars, connVars, queries, messages, toolCalls,
                 toolResults, idx, backendCalls, remoteCalls, inflight,
                 rejections, returns, initialResponse, cleanupVars, run2,
                 lineRead, taskVars>>

\* chatLoop prints the answer and asks for the next line.
PrintAnswer ==
  /\ pc = "print"
  /\ queries' = queries + 1
  /\ QueryIdle
  /\ pc' = "prompt"
  /\ UNCHANGED <<exitCode, envVars, connVars, cleanupVars, run2, lineRead, taskVars>>

\* ------------------------------------------------------------------ cleanup

\* cleanup up to its await: close() is called on every client of mcpClients.
Cleanup ==
  /\ pc = "cleanup"
  /\ closing' = mcpClients
  /\ closeAttempted' = mcpClients
  /\ pc' = "closing"
  /\ UNCHANGED <<exitCode, envVars, connVars, queryVars, closeFailed, run2, lineRead, taskVars>>

\* client.close() resolves.
CloseOk(s) ==
  /\ pc = "closing"
  /\ s \in closing
  /\ closing' = closing \ {s}
  /\ UNCHANGED <<pc, exitCode, envVars, connVars, queryVars, closeAttempted,
                 closeFailed, run2, lineRead, taskVars>>

\* A rejected close() that is not caught: Promise.all rejects and main ends
\* with the other closes pending.
CloseFailAborts(s) ==
  /\ pc = "closing"
  /\ s \in closing
  /\ closeFailed' = closeFailed \cup {s}
  /\ pc' = "exited"
  /\ exitCode' = 1
  /\ UNCHANGED <<envVars, connVars, queryVars, closing, closeAttempted, run2,
                 lineRead, taskVars>>

\* client.close() rejects: the .catch logs the error.
CloseFail(s) ==
  /\ pc = "closing"
  /\ s \in closing
  /\ closing' = closing \ {s}
  /\ closeFailed' = closeFailed \cup {s}
  /\ UNCHANGED <<pc, exitCode, envVars, connVars, queryVars, closeAttempted,
                 run2, lineRead, taskVars>>

\* After Promise.all(closePromises): main's finally block calls process.exit(0).
CleanupDone ==
  /\ pc = "closing"
  /\ closing = {}
  /\ pc' = "exited"
  /\ exitCode' = 0
  /\ UNCHANGED <<envVars, connVars, queryVars, cleanupVars, run2, lineRead, taskVars>>

\* ------------------------------------------------- task scheduling server

\* scheduledTasks.has(name)
TaskHas(name) == \E t \in scheduledTasks : t.name = name

\* scheduledTasks.get(name): the stored task, or none.
TaskGet(name) == {t \in scheduledTasks : t.name = name}

\* scheduledTasks.set(name, storedTask) on the map m
TaskSet(m, name, storedTask) == {t \in m : t.name # name} \cup {storedTask}

\* scheduledTasks.delete(name) on the map m
TaskDelete(m, name) == {t \in m : t.name # name}

\* A StoredTask object: task is the node-cron task it was created with;
\* lastRunExitCode is {} for undefined. The command, its arguments and the
\* captured output are left out.
StoredTask(name, schedule, task) ==
  [name |-> name, schedule |-> schedule, task |-> task, lastRunTime |-> FALSE,
   lastRunExitCode |-> {}]

\* A SCHEDULE_TASK handler without its two checks: it schedules whatever it is
\* given and replaces a stored task of the same name.
ScheduleTaskOverwrites(name, schedule) ==
  /\ requests < MaxRequests
  /\ requests' = requests + 1
  /\ cronTasks' = cronTasks \cup
       {[task |-> requests + 1, name |-> name, schedule |-> schedule]}
  /\ scheduledTasks' =
       TaskSet(scheduledTasks, name, StoredTask(name, schedule, requests + 1))
  /\ cancelled' = cancelled \ {name}
  /\ lastResult' =
       Result("SCHEDULE_TASK", name, schedule,
              <<"Task ", name, " scheduled successfully">>, FALSE, {})
  /\ UNCHANGED <<clientVars, children, ticks>>

\* The SCHEDULE_TASK handler.
ScheduleTask(name, schedule) ==
  /\ requests < MaxRequests
  /\ requests' = requests + 1
  /\ IF TaskHas(name)
       THEN /\ lastResult' =
                 Result("SCHEDULE_TASK", name, schedule,
                        <<"Error: Task with name ", name, " already exists.">>,
                        TRUE, {})
            /\ UNCHANGED <<scheduledTasks, cronTasks, cancelled>>
       ELSE IF ~CronValidate(schedule)
         THEN /\ lastResult' =
                   Result("SCHEDULE_TASK", name, schedule,
                          <<"Error: Invalid cron schedule format ", schedule>>,
                          TRUE, {})
              /\ UNCHANGED <<scheduledTasks, cronTasks, cancelled>>
         ELSE LET task == requests + 1
              IN /\ cronTasks' = cronTasks \cup
                      {[task |-> task, name |-> name, schedule |-> schedule]}
                 /\ scheduledTasks' =
                      TaskSet(scheduledTasks, name,
                              StoredTask(name, schedule, task))
                 /\ cancelled' = cancelled \ {name}
                 /\ lastResult' =
                      Result("SCHEDULE_TASK", name, schedule,
                             <<"Task ", name, " scheduled successfully">>,
                             FALSE, {})
  /\ UNCHANGED <<clientVars, children, ticks>>

\* The callback of a node-cron task that is not stopped: it takes the stored
\* task of its name, or a new object when the map has none, sets lastRunTime
\* on it and spawns the child process.
CronTick(cron) ==
  /\ cron \in cronTasks
  /\ ticks < MaxTicks
  /\ LET got == TaskGet(cron.name)
         storedTask ==
           IF got # {} THEN CHOOSE t \in got : TRUE
           ELSE StoredTask(cron.name, cron.schedule, cron.task)
         ran == [storedTask EXCEPT !.lastRunTime = TRUE]
     IN /\ scheduledTasks' =
             IF got # {} THEN TaskSet(scheduledTasks, cron.name, ran)
             ELSE scheduledTasks
        /\ children' = children \cup {[run |-> ticks + 1, storedTask |-> ran]}
  /\ ticks' = ticks + 1
  /\ UNCHANGED <<clientVars, cronTasks, requests, lastResult, cancelled>>

\* child.on('close'): the exit code is stored (code || undefined) and the
\* stored task is set in the map under its name.
ChildClose(child, code) ==
  /\ child \in children
  /\ LET storedTask ==
           [child.storedTask EXCEPT
              !.lastRunExitCode = IF code = 0 THEN {} ELSE {code}]
     IN scheduledTasks' = TaskSet(scheduledTasks, storedTask.name, storedTask)
  /\ children' = children \ {child}
  /\ UNCHANGED <<clientVars, cronTasks, ticks, requests, lastResult, cancelled>>

\* The LIST_TASKS handler.
ListTasks ==
  /\ requests < MaxRequests
  /\ requests' = requests + 1
  /\ lastResult' =
       Result("LIST_TASKS", "", "",
              IF scheduledTasks = {} THEN <<"No tasks scheduled.">>
              ELSE <<"Scheduled Tasks:">>,
              FALSE, {t.name : t \in scheduledTasks})
  /\ UNCHANGED <<clientVars, scheduledTasks, cronTasks, children, ticks,
                 cancelled>>

\* The GET_TASK_OUTPUT handler.
GetTaskOutput(name) ==
  /\ requests < MaxRequests
  /\ requests' = requests + 1
  /\ LET got == TaskGet(name)
     IN lastResult' =
          IF got = {}
            THEN Result("GET_TASK_OUTPUT", name, "",
                        <<"Error: Task with name ", name, " not found.">>,
                        TRUE, {})
            ELSE IF \A t \in got : ~t.lastRunTime
              THEN Result("GET_TASK_OUTPUT", name, "",
                          <<"Task ", name, " has not been executed yet.">>,
                          FALSE, {})
              ELSE Result("GET_TASK_OUTPUT", name, "",
                          <<"Output for task ", name>>, FALSE, {})
  /\ UNCHANGED <<clientVars, scheduledTasks, cronTasks, children, ticks,
                 cancelled>>

\* The CANCEL_TASK handler: the node-cron task of the stored task is stopped
\* and the name is deleted from the map.
CancelTask(name) ==
  /\ requests < MaxRequests
  /\ requests' = requests + 1
  /\ LET got == TaskGet(name)
     IN IF got = {}
          THEN /\ lastResult' =
                    Result("CANCEL_TASK", name, "",
                           <<"Error: Task with name ", name, " not found.">>,
                           TRUE, {})
               /\ UNCHANGED <<scheduledTasks, cronTasks, cancelled>>
          ELSE /\ cronTasks' =
                    {c \in cronTasks : \A t \in got : c.task # t.task}
               /\ scheduledTasks' = TaskDelete(scheduledTasks, name)
               /\ cancelled' = cancelled \cup {name}
               /\ lastResult' =
                    Result("CANCEL_TASK", name, "",
                           <<"Task ", name, " cancelled successfully.">>,
                           FALSE, {})
  /\ UNCHANGED <<clientVars, children, ticks>>

\* --------------------------------------- a second run of connectToServers

\* The second run, on the configuration the first run loaded: the for loop.
Run2ConnectToServers ==
  /\ serverConfigs # {}
  /\ ~run2.started
  /\ run2' = [run2 EXCEPT
                !.started = TRUE,
                !.mcpClients = Range(McpServers),
                !.attempt = [s \in Servers |->
                               IF s \in Range(McpServers) THEN "connecting"
                               ELSE "none"]]
  /\ UNCHANGED <<pc, exitCode, envVars, connVars, queryVars, cleanupVars,
                 lineRead, taskVars>>

\* The second run: await client.connect(transport) resolves.
Run2ConnectOk(s) ==
  /\ run2.attempt[s] = "connecting"
  /\ run2' = [run2 EXCEPT !.attempt[s] = "listing"]
  /\ UNCHANGED <<pc, exitCode, envVars, connVars, queryVars, cleanupVars,
                 lineRead, taskVars>>

\* The second run: the catch block of an attempt.
Run2AttemptFail(s) ==
  /\ run2.attempt[s] \in {"connecting", "listing"}
  /\ run2' = [run2 EXCEPT !.attempt[s] = "failed",
                          !.mcpClients = CatchDeletes(@, s)]
  /\ UNCHANGED <<pc, exitCode, envVars, connVars, queryVars, cleanupVars,
                 lineRead, taskVars>>

\* The second run: await client.listTools() resolves and the tools are
\* registered.
Run2ListToolsOk(s) ==
  /\ run2.attempt[s] = "listing"
  /\ run2' = [run2 EXCEPT
                !.attempt[s] = "done",
                !.toolToServerMap =
                  Register([map |-> @, warnings |-> <<>>], s, Catalog(s), 1).map]
  /\ UNCHANGED <<pc, exitCode, envVars, connVars, queryVars, cleanupVars,
                 lineRead, taskVars>>

\* ---------------------------------------------------------- specifications

Next ==
  \/ MainStart
  \/ LoadConfig
  \/ ConnectToServers
  \/ \E s \in Servers : ConnectOk(s)
  \/ \E s \in Servers : AttemptFail(s)
  \/ \E s \in Servers : ListToolsOk(s)
  \/ AllSettled
  \/ \E line \in Lines(queries + 1) : ReadQuit(line)
  \/ \E line \in Lines(queries + 1) : ReadBlank(line)
  \/ \E line \in Lines(queries + 1) : ReadQuery(line)
  \/ \E content \in ResponseContents : Phase1Response(content)
  \/ \E message \in BackendErrors : BackendFail(message)
  \/ Dispatch
  \/ \E result \in ToolResponses : CallToolReturn(result)
  \/ \E message \in TransportErrors : CallToolReject(message)
  \/ SendResults
  \/ \E content \in FinalContents : Phase4Response(content)
  \/ PrintAnswer
  \/ Cleanup
  \/ \E s \in Servers : CloseOk(s)
  \/ \E s \in Servers : CloseFail(s)
  \/ CleanupDone

Spec == Init /\ [][Next]_vars

\* Two runs of the startup on the same configuration, side by side.
NextPair ==
  \/ MainStart
  \/ LoadConfig
  \/ ConnectToServers
  \/ \E s \in Servers : ConnectOk(s)
  \/ \E s \in Servers : AttemptFail(s)
  \/ \E s \in Servers : ListToolsOk(s)
  \/ AllSettled
  \/ Run2ConnectToServers
  \/ \E s \in Servers : Run2ConnectOk(s)
  \/ \E s \in Servers : Run2AttemptFail(s)
  \/ \E s \in Servers : Run2ListToolsOk(s)

SpecPair == Init /\ [][NextPair]_vars

\* processQuery at its await of client.callTool, in the first query of a
\* session with the servers echo and clock: the one tool call of the first
\* response, for ECHO or for TIME, has been sent to its owner.
AwaitingCallTool ==
  \E toolCall \in {b \in BlocksAt(1) : b.type = "tool_use" /\ b.name # "NOPE"} :
    LET call == [server |-> IF toolCall.name = "ECHO" THEN "echo" ELSE "clock",
                 name |-> toolCall.name, id |-> toolCall.id,
                 arguments |-> toolCall.input]
        tools == <<[name |-> "ECHO", server |-> "echo"],
                   [name |-> "TIME", server |-> "clock"]>>
    IN /\ pc = "calling"
       /\ exitCode = 0
       /\ configFile = [kind |-> "valid", servers |-> <<"echo", "clock">>]
       /\ apiKey = TRUE
       /\ serverConfigs = {<<"echo", "clock">>}
       /\ mcpClients = {"echo", "clock"}
       /\ transports = {"echo", "clock"}
       /\ attempt = [s \in Servers |->
                       IF s \in {"echo", "clock"} THEN "done" ELSE "none"]
       /\ connected = {"echo", "clock"}
       /\ toolToServerMap = {<<"ECHO", "echo">>, <<"TIME", "clock">>}
       /\ allTools = tools
       /\ warnings = <<>>
       /\ reportedCount = 2
       /\ queries = 0
       /\ lineRead = QueryText(1)
       /\ messages = <<[role |-> "user", content |-> QueryText(1)],
                       [role |-> "assistant", content |-> <<toolCall>>]>>
       /\ toolCalls = <<toolCall>>
       /\ toolResults = <<>>
       /\ idx = 1
       /\ finalAnswer = <<>>
       /\ answer = <<>>
       /\ backendCalls = <<[messages |-> <<[role |-> "user",
                                            content |-> QueryText(1)]>>,
                            tools |-> tools]>>
       /\ remoteCalls = <<call>>
       /\ inflight = {call}
       /\ rejections = {}
       /\ returns = {}
       /\ initialResponse = {<<toolCall>>}
       /\ finalResponse = {}
       /\ closing = {}
       /\ closeAttempted = {}
       /\ closeFailed = {}
       /\ run2 = [started |-> FALSE, attempt |-> NoAttempts, mcpClients |-> {},
                  toolToServerMap |-> {}]
       /\ TasksIdle

\* The normalization of a callTool result, over every result of
\* CallToolResults: the step of processQuery from a resolved callTool to the
\* pushed tool result.
NextNormalize == \E result \in CallToolResults : CallToolReturn(result)

SpecNormalize == AwaitingCallTool /\ [][NextNormalize]_vars

\* The task scheduling server on its own: the client process is not started.
InitTasks ==
  /\ Init
  /\ configFile = [kind |-> "missing", servers |-> <<>>]
  /\ apiKey = FALSE

NextTasks ==
  \/ \E name \in TaskNames, schedule \in Schedules : ScheduleTask(name, schedule)
  \/ \E cron \in cronTasks : CronTick(cron)
  \/ \E child \in children, code \in ExitCodes : ChildClose(child, code)
  \/ ListTasks
  \/ \E name \in TaskNames : GetTaskOutput(name)
  \/ \E name \in TaskNames : CancelTask(name)

SpecTasks == InitTasks /\ [][NextTasks]_vars

\* ------------------------------------------------------------------ claims

\* The servers whose attempt registered its tools.
Succeeded == {s \in Servers : attempt[s] = "done"}

\* connectToServers has returned or has ended the process.
StartupOver == serverConfigs # {} /\ pc \notin {"connect", "awaitAll"}

\* main is in chatLoop.
InSession == pc \in {"prompt", "phase1", "dispatch", "calling", "phase4", "print"}

\* C1: when at least one attempt succeeds and any of the others fail, then once
\* all attempts have settled mcpClients holds exactly the servers that
\* succeeded, toolToServerMap and allTools hold only tools those servers
\* advertise, the reported count is the number of successes, and the process
\* has not exited with an error.
C1_PartialFailureTolerated ==
  (StartupOver /\ Succeeded # {}) =>
    /\ mcpClients = Succeeded
    /\ \A p \in toolToServerMap :
         p[2] \in Succeeded /\ p[1] \in Range(Catalog(p[2]))
    /\ \A i \in 1..Len(allTools) :
         /\ allTools[i].server \in Succeeded
         /\ allTools[i].name \in Range(Catalog(allTools[i].server))
    /\ reportedCount = Cardinality(Succeeded)
    /\ pc = "exited" => exitCode = 0

\* C1 witness: the chat loop is reached with one server registered, one failed
\* at connect and one failed at listTools.
C1_Witness ==
  /\ pc = "prompt"
  /\ Succeeded # {}
  /\ \E f \in Servers : attempt[f] = "failed" /\ f \notin connected
  /\ \E g \in Servers : attempt[g] = "failed" /\ g \in connected

\* C2: a query is accepted, and a backend or tool call made, only after every
\* connection attempt has succeeded or failed.
C2_StartupBarrier ==
  (InSession \/ queries > 0 \/ Len(backendCalls) > 0 \/ Len(remoteCalls) > 0) =>
    /\ serverConfigs # {}
    /\ \A s \in Range(McpServers) : attempt[s] \in {"done", "failed"}

\* C2 witness: a phase-1 backend call is under way after an attempt failed.
C2_Witness ==
  /\ pc = "phase1"
  /\ \E f \in Servers : attempt[f] = "failed"
  /\ Cardinality(Succeeded) >= 2

\* C3: when every attempt has failed, or no server is configured, the process
\* is at the await of the attempts or has exited with code 1, and no query was
\* ever accepted; and the process exits with code 1 only once every attempt
\* has settled.
C3_AllFailExits ==
  /\ (/\ serverConfigs # {}
      /\ pc # "connect"
      /\ \A s \in Range(McpServers) : attempt[s] = "failed") =>
       /\ pc = "awaitAll" \/ (pc = "exited" /\ exitCode = 1)
       /\ queries = 0
       /\ backendCalls = <<>>
       /\ remoteCalls = <<>>
  /\ (serverConfigs # {} /\ pc = "exited" /\ exitCode = 1) =>
       \A s \in Range(McpServers) : attempt[s] = "failed"

\* C3 witness: the process has exited with code 1 after every configured
\* server failed, one of them at listTools.
C3_Witness ==
  /\ pc = "exited"
  /\ exitCode = 1
  /\ serverConfigs # {}
  /\ Len(McpServers) >= 2
  /\ \A s \in Range(McpServers) : attempt[s] = "failed"
  /\ connected # {}

\* C4: with a config file that cannot be read, is not JSON or fails the schema,
\* no connection attempt and no query is made, and the exit code is not zero.
C4_ConfigErrorExitsNonZero ==
  configFile.kind \in {"unreadable", "notjson", "badschema"} =>
    /\ attempt = NoAttempts
    /\ queries = 0
    /\ backendCalls = <<>>
    /\ pc = "exited" => exitCode # 0

\* The server that registered the name last: allTools is in registration order.
LastRegistered(n) ==
  LET at == {i \in 1..Len(allTools) : allTools[i].name = n}
  IN allTools[CHOOSE i \in at : \A j \in at : j <= i].server

\* C5: every tool name has at most one owner in toolToServerMap at all times,
\* and the owner of a name is the server that registered it last.
C5_OneOwnerLastWins ==
  /\ \A p, q \in toolToServerMap : p[1] = q[1] => p = q
  /\ \A n \in ToolNames :
       (\E i \in 1..Len(allTools) : allTools[i].name = n) =>
         <<n, LastRegistered(n)>> \in toolToServerMap

\* C5 witness: after startup a name is owned by "simple", which registered it
\* after "simple2" did, though the config lists "simple" first.
C5_Witness ==
  /\ pc = "prompt"
  /\ \E i, j \in 1..Len(allTools) :
       /\ i < j
       /\ allTools[i].name = "ECHO" /\ allTools[i].server = "simple2"
       /\ allTools[j].name = "ECHO" /\ allTools[j].server = "simple"
  /\ <<"ECHO", "simple">> \in toolToServerMap

\* C6: the tools offered to the backend never hold two entries of one name.
C6_SnapshotNoDuplicates ==
  \A k \in 1..Len(backendCalls) :
    \A i, j \in 1..Len(backendCalls[k].tools) :
      i # j => backendCalls[k].tools[i].name # backendCalls[k].tools[j].name

\* C7: two runs on the same config in which every server connects end with the
\* same owner for every tool name.
C7_OwnerSameInEveryRun ==
  (/\ pc = "prompt"
   /\ mcpClients = Range(McpServers)
   /\ run2.started
   /\ \A s \in Range(McpServers) : run2.attempt[s] = "done") =>
    toolToServerMap = run2.toolToServerMap

\* The number of warnings written for a name.
WarningsFor(n) == Cardinality({i \in 1..Len(warnings) : warnings[i].name = n})

\* The servers that registered a name.
Advertisers(n) == {s \in Succeeded : n \in Range(Catalog(s))}

\* C8, as claimed: exactly one warning for a name that two or more connected
\* servers advertise, and none for a name only one advertises.
C8_OneWarningPerCollidingName ==
  StartupOver =>
    \A n \in ToolNames :
      /\ Cardinality(Advertisers(n)) >= 2 => WarningsFor(n) = 1
      /\ Cardinality(Advertisers(n)) = 1 => WarningsFor(n) = 0

\* C8, amended: a name that k >= 1 connected servers advertise gets exactly k - 1
\* warnings, one for each registration after the first; a name no connected
\* server advertises gets none.
C8_OneWarningPerOverwrite ==
  \A n \in ToolNames :
    WarningsFor(n) =
      IF Advertisers(n) = {} THEN 0 ELSE Cardinality(Advertisers(n)) - 1

\* C8 witness: startup is over and three connected servers advertise ECHO.
C8_Witness ==
  /\ pc = "prompt"
  /\ Cardinality(Advertisers("ECHO")) = 3

\* No connected server owns the name in the registry.
NoClientFor(n) == ~(\E p \in toolToServerMap : p[1] = n /\ p[2] \in mcpClients)

\* C9: a requested tool with no owner in the registry, or with no client for
\* its owner, is never called remotely; once the loop has passed it, it has an
\* error result with the request's id; and the loop goes on: the calls after
\* it are made and the phase-4 request is sent.
C9_UnknownToolIsAnErrorResult ==
  \A k \in 1..Len(toolCalls) :
    NoClientFor(toolCalls[k].name) =>
      /\ \A i \in 1..Len(remoteCalls) : remoteCalls[i].id # toolCalls[k].id
      /\ k < idx =>
           /\ k <= Len(toolResults)
           /\ toolResults[k].tool_use_id = toolCalls[k].id
           /\ toolResults[k].is_error
      /\ pc \in {"phase4", "print"} =>
           /\ Len(toolResults) = Len(toolCalls)
           /\ Len(backendCalls) = 2
           /\ \A j \in 1..Len(toolCalls) :
                ~NoClientFor(toolCalls[j].name) =>
                  \E i \in 1..Len(remoteCalls) : remoteCalls[i].id = toolCalls[j].id

\* C9 witness: the phase-4 request is sent after a first tool call to a name no
\* server advertises and a second one that was called remotely.
C9_Witness ==
  /\ pc = "phase4"
  /\ Len(toolCalls) = 2
  /\ toolCalls[1].name = "NOPE"
  /\ Len(remoteCalls) = 1
  /\ remoteCalls[1].id = toolCalls[2].id

\* C10: a rejected callTool becomes a result with the request's id, the error
\* flag and the cause in its text; the later tool calls and the phase-4 request
\* are still made, and the answer is not the transport error.
C10_TransportFailureIsAnErrorResult ==
  /\ \A r \in rejections :
       \E k \in 1..Len(toolResults) :
         /\ toolCalls[k].id = r.id
         /\ toolResults[k].tool_use_id = r.id
         /\ toolResults[k].is_error
         /\ r.message \in Range(toolResults[k].content)
  /\ (rejections # {} /\ pc \in {"phase4", "print"}) =>
       /\ Len(toolResults) = Len(toolCalls)
       /\ Len(backendCalls) = 2
       /\ \A j \in 1..Len(toolCalls) :
            ~NoClientFor(toolCalls[j].name) =>
              \E i \in 1..Len(remoteCalls) : remoteCalls[i].id = toolCalls[j].id
  /\ (rejections # {} /\ pc = "print") =>
       answer \notin {<<"An error occurred: ", m>> : m \in TransportErrors}

\* C10 witness: a query is answered after its first tool call was rejected and
\* its second one returned.
C10_Witness ==
  /\ pc = "print"
  /\ Len(toolCalls) = 2
  /\ \E r \in rejections : r.id = toolCalls[1].id
  /\ Len(remoteCalls) = 2
  /\ ~toolResults[2].is_error
  /\ Len(backendCalls) = 2

\* ------------------------------------------------------------- claims C11-C20

\* The first-phase response holds no block of type "tool_use".
NoRequests(content) ==
  \A i \in 1..Len(content) : content[i].type # "tool_use"

\* C11: when a tool server resolves a call with its error indicator set
\* (isError: true), the tool result pushed for that request carries is_error.
C11_ErrorIndicatorForwarded ==
  \A r \in returns :
    r.result.isError =>
      \E k \in 1..Len(toolResults) :
        /\ toolResults[k].tool_use_id = r.id
        /\ toolResults[k].is_error

\* The text blocks of the first-phase response joined with newlines, written
\* out block by block.
JoinedText(content) ==
  LET texts == SelectSeq(content, LAMBDA b : b.type = "text")
  IN Join([i \in 1..Len(texts) |-> texts[i].text], "\n")

\* C12 as stated: a query answered from a response without tool requests makes
\* no remote call and no second request, and its answer is the joined text
\* blocks, or the placeholder when the response has no text block.
C12_AnswerIsJoinedText ==
  \A content \in initialResponse :
    (pc = "print" /\ NoRequests(content)) =>
      /\ remoteCalls = <<>>
      /\ toolResults = <<>>
      /\ Len(backendCalls) = 1
      /\ finalResponse = {}
      /\ answer = IF \E i \in 1..Len(content) : content[i].type = "text"
                    THEN JoinedText(content)
                    ELSE Placeholder

\* C12 amended: the answer is the joined text blocks with the white space at
\* both ends removed, or the placeholder when nothing is left of them.
C12_AnswerIsTrimmedText ==
  \A content \in initialResponse :
    (pc = "print" /\ NoRequests(content)) =>
      /\ remoteCalls = <<>>
      /\ toolResults = <<>>
      /\ Len(backendCalls) = 1
      /\ finalResponse = {}
      /\ answer = IF Trim(JoinedText(content)) = <<>>
                    THEN Placeholder
                    ELSE Trim(JoinedText(content))

\* C12 witness: a query is answered with the placeholder after a response of
\* one text block that is white space only.
C12_Witness ==
  /\ pc = "print"
  /\ initialResponse = {<<[type |-> "text", text |-> <<" ">>, id |-> 0,
                          name |-> ""]>>}
  /\ answer = Placeholder
  /\ Len(backendCalls) = 1

\* The blocks of type "tool_use" of a response, in the order of the response.
Requests(content) == SelectSeq(content, LAMBDA b : b.type = "tool_use")

\* C13: for a first response with N >= 1 tool requests, the i-th tool result
\* carries the id of the i-th request; the remote calls are calls for requests
\* of the response, made in the order of the requests; and once the loop is
\* over there are exactly N results and exactly one second request, whose
\* messages are the user's query, the assistant turn with the first response
\* and a user turn with the N results, whatever the outcome of each call.
C13_OneResultPerRequestInOrder ==
  \A content \in initialResponse :
    LET reqs == Requests(content)
    IN Len(reqs) >= 1 =>
         /\ Len(toolResults) <= Len(reqs)
         /\ \A k \in 1..Len(toolResults) :
              toolResults[k].tool_use_id = reqs[k].id
         /\ \A i \in 1..Len(remoteCalls) :
              \E a \in 1..Len(reqs) :
                /\ reqs[a].id = remoteCalls[i].id
                /\ reqs[a].name = remoteCalls[i].name
                /\ \A j \in (i + 1)..Len(remoteCalls) :
                     \E b \in (a + 1)..Len(reqs) :
                       reqs[b].id = remoteCalls[j].id
         /\ pc \in {"dispatch", "calling"} => Len(backendCalls) = 1
         /\ pc \in {"phase4", "print"} =>
              /\ Len(toolResults) = Len(reqs)
              /\ Len(backendCalls) = 2
              /\ backendCalls[2].messages =
                   <<[role |-> "user", content |-> lineRead],
                     [role |-> "assistant", content |-> content],
                     [role |-> "user", content |-> toolResults]>>

\* C13 witness: the second request has been sent for two tool requests, one
\* whose call returned and one whose call was rejected.
C13_Witness ==
  /\ pc = "phase4"
  /\ Len(toolCalls) = 2
  /\ Len(toolResults) = 2
  /\ returns # {}
  /\ rejections # {}
  /\ Len(backendCalls) = 2

\* The ids of the remote calls of this query that resolved or rejected.
Completed == {r.id : r \in returns} \cup {r.id : r \in rejections}

\* The remote calls of this query that were made and have not completed.
Pending ==
  {i \in 1..Len(remoteCalls) : remoteCalls[i].id \notin Completed}

\* C14: at most one remote call is pending at any time, over all servers; a
\* pending call is the last one made, so a call is made only after every
\* earlier call has resolved or rejected; and no call is pending once the
\* second request has been sent to the backend, or outside a query.
C14_OneCallInFlight ==
  /\ Cardinality(Pending) <= 1
  /\ Pending \subseteq {Len(remoteCalls)}
  /\ Cardinality(inflight) = Cardinality(Pending)
  /\ \A c \in inflight : \E i \in Pending : remoteCalls[i] = c
  /\ Len(backendCalls) = 2 => Pending = {}
  /\ pc # "calling" => Pending = {}

\* C14 witness: the second remote call of a query is pending, after the first
\* one completed.
C14_Witness ==
  /\ pc = "calling"
  /\ Len(remoteCalls) = 2
  /\ Cardinality(Completed) = 1
  /\ Pending = {2}

\* C15: a query makes at most two requests to the backend and the second one
\* offers no tools; once the second response has arrived the query is over:
\* the answer is printed next, no remote call is pending, and the remote calls
\* and tool results are those of the first response's requests only, so a
\* tool_use block of the second response is never executed.
C15_OneToolRound ==
  /\ Len(backendCalls) <= 2
  /\ Len(backendCalls) = 2 => backendCalls[2].tools = <<>>
  /\ \A final \in finalResponse :
       /\ pc = "print"
       /\ Len(backendCalls) = 2
       /\ inflight = {}
       /\ \A first \in initialResponse :
            /\ Len(toolResults) = Len(SelectSeq(first, LAMBDA b : b.type = "tool_use"))
            /\ Len(remoteCalls) <= Len(toolResults)
            /\ Len(messages) = 3

\* C15 witness: the second response has arrived with a tool_use block in it.
C15_Witness ==
  /\ pc = "print"
  /\ \E final \in finalResponse :
       \E i \in 1..Len(final) : final[i].type = "tool_use"
  /\ Len(remoteCalls) = 1

\* A request to the backend of this query was made and processQuery is past it
\* without a response to it: the request was rejected.
BackendFailed ==
  /\ pc \notin {"phase1", "phase4"}
  /\ \/ Len(backendCalls) = 1 /\ initialResponse = {}
     \/ Len(backendCalls) = 2 /\ finalResponse = {}

\* C16: after a rejected backend request, in phase 1 or in phase 4, the query
\* has a textual error answer that chatLoop is about to print; processQuery
\* never rejects: a query in progress always ends with an
\* answer to print, and the printed answer is followed by the next prompt, at
\* which the next query can be read and sent to the backend.
C16_BackendFailureIsAnAnswer ==
  /\ [](BackendFailed =>
          /\ pc = "print"
          /\ \E m \in BackendErrors : answer = <<"An error occurred: ", m>>)
  /\ []((pc = "prompt" /\ queries < MaxQueries) =>
          ENABLED ReadQuery(QueryText(queries + 1)))
  /\ [][/\ pc \in {"phase1", "dispatch", "calling", "phase4"} =>
             pc' \in {"phase1", "dispatch", "calling", "phase4", "print"}
        /\ pc = "print" => (pc' = "prompt" /\ queries' = queries + 1)
        /\ (pc = "prompt" /\ lineRead' = QueryText(queries + 1)) =>
             (pc' = "phase1" /\ Len(backendCalls') = 1)]_vars

\* C16 witness: the second request of a query was rejected after a tool call,
\* and the error answer is about to be printed.
C16_Witness ==
  /\ pc = "print"
  /\ Len(backendCalls) = 2
  /\ finalResponse = {}
  /\ Len(remoteCalls) >= 1
  /\ \E m \in BackendErrors : answer = <<"An error occurred: ", m>>

\* C17: every remote call is made on the client of the server the registry
\* holds as the owner of the called name, a server with a client, and the
\* registry holds no other owner for that name; with the servers echo (ECHO)
\* and clock (TIME) connected and the requests TIME then ECHO, the calls go to
\* clock and then to echo.
C17_CallsGoToTheOwner ==
  /\ \A i \in 1..Len(remoteCalls) :
       /\ <<remoteCalls[i].name, remoteCalls[i].server>> \in toolToServerMap
       /\ remoteCalls[i].server \in mcpClients
       /\ \A p \in toolToServerMap :
            p[1] = remoteCalls[i].name => p[2] = remoteCalls[i].server
  /\ ( /\ serverConfigs = {<<"echo", "clock">>}
       /\ mcpClients = {"echo", "clock"}
       /\ Len(toolCalls) = 2
       /\ toolCalls[1].name = "TIME"
       /\ toolCalls[2].name = "ECHO"
       /\ idx > 2 ) =>
       [i \in 1..Len(remoteCalls) |-> remoteCalls[i].server] = <<"clock", "echo">>

\* C17 witness: echo and clock are connected and the two calls of the requests
\* TIME then ECHO have been made.
C17_Witness ==
  /\ serverConfigs = {<<"echo", "clock">>}
  /\ mcpClients = {"echo", "clock"}
  /\ pc = "phase4"
  /\ Len(toolCalls) = 2
  /\ toolCalls[1].name = "TIME"
  /\ toolCalls[2].name = "ECHO"
  /\ Len(remoteCalls) = 2

\* C18: no step of the chat loop, from the first prompt to the break on quit,
\* changes mcpClients, transports, toolToServerMap or allTools, whatever the
\* query's outcome.
C18_ReadOnlyAfterStartup ==
  [][InSession =>
       /\ mcpClients' = mcpClients
       /\ transports' = transports
       /\ toolToServerMap' = toolToServerMap
       /\ allTools' = allTools]_vars

\* C18 witness: a second query was answered after a tool call that returned
\* and one that was rejected, with the client of the rejected call still in
\* mcpClients.
C18_Witness ==
  /\ pc = "print"
  /\ queries = 1
  /\ returns # {}
  /\ \E r \in rejections :
       \E i \in 1..Len(remoteCalls) :
         remoteCalls[i].id = r.id /\ remoteCalls[i].server \in mcpClients

\* C19: the first request of every query to the backend, the first query and
\* the later ones alike, holds exactly one message: the user turn with the
\* line read for this query.
C19_FirstRequestIsTheQueryOnly ==
  Len(backendCalls) >= 1 =>
    /\ Len(backendCalls[1].messages) = 1
    /\ backendCalls[1].messages[1] =
         [role |-> "user", content |-> QueryText(queries + 1)]
    /\ lineRead = QueryText(queries + 1)

\* C19 witness: the first request of the second query has been sent.
C19_Witness ==
  /\ pc = "phase1"
  /\ queries = 1
  /\ Len(backendCalls) = 1

\* processQuery is in progress, or its answer is being printed.
QueryInProgress == pc \in {"phase1", "dispatch", "calling", "phase4", "print"}

\* C20: a line is read only at the prompt, where nothing of a query is in
\* progress, and no line is read while a query is in progress, so there is at
\* most one processQuery at a time and it is over before the next line is
\* accepted; the chat loop is left only from the prompt, on a line that is
\* 'quit' in any case; and a line that is empty or white space only leaves the
\* loop at the prompt with no request to the backend.
C20_OneQueryAtATime ==
  /\ [](pc = "prompt" =>
          /\ backendCalls = <<>>
          /\ remoteCalls = <<>>
          /\ inflight = {}
          /\ messages = <<>>)
  /\ [][/\ QueryInProgress =>
             /\ lineRead' = lineRead
             /\ pc' \in {"phase1", "dispatch", "calling", "phase4", "print",
                         "prompt"}
             /\ queries' = IF pc' = "prompt" THEN queries + 1 ELSE queries
        /\ (InSession /\ pc' \notin {"prompt", "phase1", "dispatch", "calling",
                                     "phase4", "print"}) =>
             /\ pc = "prompt"
             /\ lineRead' \in {<<"quit">>, <<"QUIT">>}
        /\ (pc = "prompt" /\ lineRead' \in {<<>>, <<" ">>}) =>
             /\ pc' = "prompt"
             /\ backendCalls' = <<>>
             /\ queries' = queries]_vars

\* C20 witness: after the first query was answered, a line of white space was
\* read and the loop is at the prompt again.
C20_Witness ==
  /\ pc = "prompt"
  /\ queries = 1
  /\ lineRead = <<" ">>
  /\ backendCalls = <<>>

\* ------------------------------------------------------------- claims C21-C29

\* main has left through its finally block: cleanup is over and process.exit(0)
\* was called.
ShutDown == pc = "exited" /\ exitCode = 0

\* C21: cleanup calls close() on every client of mcpClients, whichever of the
\* closes fail; a failed close leaves the other closes pending until each has
\* resolved or rejected on its own; once none is pending cleanup returns, and
\* from cleanup the process only exits with code 0.
C21_CloseFailureTolerated ==
  /\ []((pc = "closing" \/ ShutDown) =>
          /\ closeAttempted = mcpClients
          /\ closeFailed \subseteq closeAttempted
          /\ closing \subseteq closeAttempted \ closeFailed)
  /\ [](ShutDown => closing = {})
  /\ []((pc = "closing" /\ closing = {}) => ENABLED CleanupDone)
  /\ [][pc = "closing" =>
          /\ pc' \in {"closing", "exited"}
          /\ closeAttempted' = closeAttempted
          /\ closing' \subseteq closing
          /\ Cardinality(closing \ closing') <= 1
          /\ pc' = "exited" => (closing = {} /\ exitCode' = 0)]_vars

\* C21 witness: the process has exited with code 0 after the close of one
\* client failed and the close of another succeeded.
C21_Witness ==
  /\ ShutDown
  /\ closeFailed # {}
  /\ closeAttempted \ closeFailed # {}

\* C22: when exactly one server of the configuration got through connect and
\* listTools, allTools after startup is that server's catalog, every name
\* once and in the catalog's order, and the registry maps exactly those names,
\* each to that server.
C22_SingleServerSnapshot ==
  \A s \in Servers :
    (pc \notin {"start", "loadConfig", "connect", "awaitAll"}
       /\ {t \in Servers : attempt[t] = "done"} = {s}) =>
      /\ [i \in 1..Len(allTools) |-> allTools[i].name] = Catalog(s)
      /\ \A i \in 1..Len(allTools) : allTools[i].server = s
      /\ toolToServerMap = {<<Catalog(s)[i], s>> : i \in 1..Len(Catalog(s))}

\* C22 witness: of three configured servers only the one with three tools got
\* through startup, and the first prompt is shown.
C22_Witness ==
  /\ pc = "prompt"
  /\ Cardinality(Range(McpServers)) = 3
  /\ mcpClients = {"simple"}
  /\ Len(allTools) = 3

\* C26: once cleanup is over, close() has been called on the client of every
\* server whose client.connect resolved during startup, the servers whose
\* listTools then failed included.
C26_EveryConnectedServerClosed ==
  ShutDown => connected \subseteq closeAttempted

\* C27: once connectToServers is past Promise.all, every tool of allTools has
\* an owner in toolToServerMap, and the owner's client is in mcpClients,
\* whichever attempts failed and in whatever order the attempts ran.
C27_OfferedToolsResolve ==
  pc \notin {"start", "loadConfig", "connect", "awaitAll"} =>
    \A i \in 1..Len(allTools) :
      \E p \in toolToServerMap :
        /\ p[1] = allTools[i].name
        /\ p[2] \in mcpClients
        /\ attempt[p[2]] = "done"

\* C27 witness: the first prompt is shown after one server failed once it had
\* connected, one failed to connect, and one registered its tools.
C27_Witness ==
  /\ pc = "prompt"
  /\ \E s \in connected : attempt[s] = "failed"
  /\ \E s \in Range(McpServers) \ connected : attempt[s] = "failed"
  /\ Len(allTools) >= 1

\* C25: the arguments of every remote call match the input schema of the
\* called tool: they hold every property the schema requires.
C25_ArgumentsMatchSchema ==
  \A i \in 1..Len(remoteCalls) :
    Required(remoteCalls[i].name) \subseteq remoteCalls[i].arguments

\* A string without its white space.
NonBlank(str) == SelectSeq(str, LAMBDA c : c \notin {" ", "\n"})

\* C24: when the tool round was made and the second response has arrived, the
\* answer is the text blocks of the first response followed by the text blocks
\* of the second response and nothing else: each part joined with newlines, a
\* newline after a first part that has a text block, and the white space at
\* both ends of the whole removed; the tool_use blocks of the second response
\* and the tool results add nothing to it.
C24_AnswerIsBothTexts ==
  \A first \in initialResponse :
    \A final \in finalResponse :
      LET hasText == \E i \in 1..Len(first) : first[i].type = "text"
          part1 == IF hasText THEN JoinedText(first) \o <<"\n">> ELSE <<>>
          part4 == JoinedText(final)
      IN /\ pc = "print"
         /\ answer = Trim(part1 \o part4)
         /\ NonBlank(answer) =
              NonBlank(JoinedText(first)) \o NonBlank(JoinedText(final))

\* C24 witness: the answer "a", newline, "b" of a query whose first response
\* held the text "a" and a tool request, and whose second response held the
\* text "b" and a tool_use block.
C24_Witness ==
  /\ pc = "print"
  /\ Len(remoteCalls) = 1
  /\ \E final \in finalResponse :
       \E i \in 1..Len(final) : final[i].type = "tool_use"
  /\ answer = <<"a", "\n", "b">>

\* The segments of a result's content that bear a text, in order; none when
\* the result has no content.
TextBearing(result) ==
  IF "content" \in DOMAIN result
    THEN SelectSeq(result.content,
                   LAMBDA c : c.type = "text" /\ "text" \in DOMAIN c)
    ELSE <<>>

\* C23: the output pushed for a resolved callTool is the text of the first
\* text-bearing segment of the result if it has one; otherwise the serialized
\* content if the content is a non-empty list; otherwise, if the server marked
\* the call as failed, the generic error message.
C23_NormalizedAsStated ==
  \A r \in returns :
    \A k \in 1..Len(toolResults) :
      toolResults[k].tool_use_id = r.id =>
        LET out == toolResults[k].content
            marked == r.result.isError \/ r.result.error
        IN IF Len(TextBearing(r.result)) > 0
             THEN out = TextBearing(r.result)[1].text
             ELSE IF "content" \in DOMAIN r.result /\ Len(r.result.content) > 0
                    THEN out = <<"[">> \o Stringify(r.result.content) \o <<"]">>
                    ELSE marked =>
                           out = <<"Tool ", toolCalls[k].name,
                                   " reported an error.">>

\* C28: a name cancelled with CANCEL_TASK and not scheduled again since is not
\* in the scheduledTasks map, so LIST_TASKS does not list it, and a
\* SCHEDULE_TASK of the name with a valid pattern is not refused, also when a
\* child process of the task, started before the cancel, closes after it.
C28_CancelledStaysAbsent ==
  /\ \A name \in cancelled : ~TaskHas(name)
  /\ ~( /\ lastResult.tool = "SCHEDULE_TASK"
        /\ lastResult.name \in cancelled
        /\ CronValidate(lastResult.schedule)
        /\ lastResult.isError )

\* C29: a SCHEDULE_TASK call with a name that is in the map, or with a
\* pattern cron.validate rejects, returns an error result and changes neither
\* the map nor the cron tasks nor the child processes; so does a CANCEL_TASK
\* or GET_TASK_OUTPUT call with a name that is not in the map.
C29_RefusedCallsChangeNothing ==
  [][requests' # requests =>
       LET refused ==
             \/ /\ lastResult'.tool = "SCHEDULE_TASK"
                /\ \/ \E t \in scheduledTasks : t.name = lastResult'.name
                   \/ lastResult'.schedule # "* * * * *"
             \/ /\ lastResult'.tool \in {"CANCEL_TASK", "GET_TASK_OUTPUT"}
                /\ \A t \in scheduledTasks : t.name # lastResult'.name
       IN refused =>
            /\ lastResult'.isError
            /\ Head(lastResult'.text) \in {"Error: Task with name ",
                                           "Error: Invalid cron schedule format "}
            /\ scheduledTasks' = scheduledTasks
            /\ cronTasks' = cronTasks
            /\ children' = children]_vars

\* C29 witness: SCHEDULE_TASK was refused for the name of a stored task that
\* has run, with a valid pattern, and the stored task is still the one that was
\* scheduled first.
C29_Witness ==
  /\ lastResult.tool = "SCHEDULE_TASK"
  /\ lastResult.isError
  /\ lastResult.schedule = "* * * * *"
  /\ \E t \in scheduledTasks :
       t.name = lastResult.name /\ t.lastRunTime /\ t.task = 1
  /\ Cardinality(cronTasks) = 1

====
